---- MODULE Spec2Model ----
(***************************************************************************)
(* Model of sirrah-rpc/httpserver/handler.go: the revm execution gateway.  *)
(* Each process is one HTTP request goroutine running Server.handleAPI,    *)
(* which calls RevmService.ExecuteLocked with a callback that runs         *)
(* RevmService.ExecuteTx against the engine's three pipes.                 *)
(***************************************************************************)
EXTENDS Integers, Sequences, FiniteSets, TLC

\* ---------------------------------------------------------------- bounds
NProcs == 2
MaxLen == 1
NAdmins == 3
MaxStream == 3

\* ------------------------------------------------------ program constants
NL == 10
LockCap == 1
OutChCap == 2
ErrChCap == 1
BufSize == 1024
InvalidRequest == 0 - 32600

Procs == 1 .. NProcs

\* requests to the drain, undrain, readiness and liveness endpoints
Admins == 1 .. NAdmins

VARIABLES
    pc,         \* position of each request goroutine in handleAPI / ExecuteTx
    req,        \* the parsed JsonRpcRequest (and decoded tx) of each request
    ctxDone,    \* r.Context() of each request is done
    cmdLock,    \* RevmService.cmdLock: buffer of the channel
    stdin,      \* bytes written to the engine's input pipe, not yet consumed
    outPipe,    \* bytes the engine emitted on stdout, not yet read
    errPipe,    \* bytes the engine emitted on stderr, not yet read
    outData,    \* ExecuteTx local: accumulator of the stdout loop
    outErr,     \* ExecuteTx local: accumulator of the stderr loop
    txErr,      \* err returned by ExecuteTx
    lockErr,    \* value returned by ExecuteLocked
    outCh,      \* handleAPI local channel outCh
    errCh,      \* handleAPI local channel errCh
    resp,       \* what was written to the http.ResponseWriter
    logs,       \* log records emitted on behalf of each request
    panicVal,   \* value of the panic raised inside the callback, if any
    terminated, \* the process was brought down by an unrecovered panic
    nWritten,   \* frames written to the engine's input pipe
    nReadOut,   \* frames fully read from stdout (loop left by break)
    nReadErr,   \* frames fully read from stderr (loop left by break)
    isReady,    \* Server.isReady
    apc,        \* position of each admin request in its handler
    aop,        \* the endpoint each admin request went to
    astatus,    \* HTTP status each admin request was answered with, 0 if none
    nDown,      \* times isReady went from true to false
    nUp,        \* times isReady went from false to true
    nDrainLog,  \* "Server marked as not ready" records
    nSleep,     \* sleeps of DrainDuration started
    nUndrainLog \* "Server marked as ready" records

apiVars == << pc, req, ctxDone, cmdLock, stdin, outPipe, errPipe, outData, outErr,
           txErr, lockErr, outCh, errCh, resp, logs, panicVal, terminated,
           nWritten, nReadOut, nReadErr >>

readyVars == << isReady, apc, aop, astatus, nDown, nUp, nDrainLog, nSleep,
                nUndrainLog >>

vars == << apiVars, readyVars >>

\* ------------------------------------------------------------- helpers
Min(a, b) == IF a < b THEN a ELSE b

Take(s, n) == SubSeq(s, 1, n)
Drop(s, n) == SubSeq(s, n + 1, Len(s))

\* index of the first delimiter of s, 0 when there is none
RECURSIVE FirstNL(_, _)
FirstNL(s, i) ==
    IF i > Len(s) THEN 0
    ELSE IF s[i] = NL THEN i
    ELSE FirstNL(s, i + 1)

HasNL(s) == FirstNL(s, 1) # 0

\* ------------------------------------------------------------- requests
\* tx.MarshalBinary() of the payloads the requests carry: n distinct
\* non-delimiter bytes
Payload(n) == [i \in 1 .. n |-> 64 + i]

\* the envelope fields of the requests: two ids, two jsonrpc strings
Envelope(n) == IF n % 2 = 0 THEN [id |-> 1, jsonrpc |-> "2.0"]
                            ELSE [id |-> 2, jsonrpc |-> "1.0"]

NoReq == [kind |-> "none"]
BadBody == [kind |-> "unparsable"]

ValidRequests ==
    { [kind |-> "parsed", id |-> Envelope(n).id, jsonrpc |-> Envelope(n).jsonrpc,
       method |-> "suave_offchainCall", params |-> "tx", tx |-> Payload(n)] :
        n \in 0 .. MaxLen }

BadMethodRequests ==
    { [kind |-> "parsed", id |-> Envelope(1).id, jsonrpc |-> Envelope(1).jsonrpc,
       method |-> "foo", params |-> "tx", tx |-> Payload(1)] }

BadParamsRequests ==
    { [kind |-> "parsed", id |-> Envelope(0).id, jsonrpc |-> Envelope(0).jsonrpc,
       method |-> "suave_offchainCall", params |-> "garbage", tx |-> << >>] }

Requests == {BadBody} \cup ValidRequests \cup BadMethodRequests \cup BadParamsRequests

\* ------------------------------------------------------------ responses
NoResp == [kind |-> "none"]

NewJsonRpcErrorResponse(r, code, msg) ==
    [kind |-> "error", id |-> r.id, code |-> code, message |-> msg,
     jsonrpc |-> r.jsonrpc]

NewJsonRpcSuccessResponse(r, data) ==
    [kind |-> "success", id |-> r.id, result |-> data, jsonrpc |-> r.jsonrpc]

\* ----------------------------------------------------------------- Init
Init ==
    /\ pc = [p \in Procs |-> "start"]
    /\ req = [p \in Procs |-> NoReq]
    /\ ctxDone = [p \in Procs |-> FALSE]
    /\ cmdLock = << >>
    /\ stdin = << >>
    /\ outPipe = << >>
    /\ errPipe = << >>
    /\ outData = [p \in Procs |-> << >>]
    /\ outErr = [p \in Procs |-> << >>]
    /\ txErr = [p \in Procs |-> "none"]
    /\ lockErr = [p \in Procs |-> "none"]
    /\ outCh = [p \in Procs |-> << >>]
    /\ errCh = [p \in Procs |-> << >>]
    /\ resp = [p \in Procs |-> NoResp]
    /\ logs = [p \in Procs |-> {}]
    /\ panicVal = [p \in Procs |-> "none"]
    /\ terminated = FALSE
    /\ nWritten = 0
    /\ nReadOut = 0
    /\ nReadErr = 0
    /\ isReady = TRUE
    /\ apc = [a \in Admins |-> "idle"]
    /\ aop = [a \in Admins |-> "none"]
    /\ astatus = [a \in Admins |-> 0]
    /\ nDown = 0
    /\ nUp = 0
    /\ nDrainLog = 0
    /\ nSleep = 0
    /\ nUndrainLog = 0

\* ------------------------------------------------------------- the engine
\* diagnostic frame the engine emits for every input frame
DiagFrame == << 69, NL >>

\* The engine consumes one input frame and emits one frame on each output
\* stream: the input echoed on stdout, DiagFrame on stderr.
Engine ==
    /\ ~terminated
    /\ UNCHANGED readyVars
    /\ HasNL(stdin)
    /\ LET i == FirstNL(stdin, 1) IN
        /\ outPipe' = outPipe \o Take(stdin, i)
        /\ errPipe' = errPipe \o DiagFrame
        /\ stdin' = Drop(stdin, i)
    /\ UNCHANGED << pc, req, ctxDone, cmdLock, outData, outErr, txErr, lockErr,
                    outCh, errCh, resp, logs, panicVal, terminated,
                    nWritten, nReadOut, nReadErr >>

\* the client goes away or the request deadline passes: r.Context() is done
Cancel(p) ==
    /\ ~terminated
    /\ UNCHANGED readyVars
    /\ pc[p] \in {"select", "tx", "readOut", "readErr", "cbret"}
    /\ ~ctxDone[p]
    /\ ctxDone' = [ctxDone EXCEPT ![p] = TRUE]
    /\ UNCHANGED << pc, req, cmdLock, stdin, outPipe, errPipe, outData, outErr,
                    txErr, lockErr, outCh, errCh, resp, logs, panicVal,
                    terminated, nWritten, nReadOut, nReadErr >>

\* ------------------------------------------------------------- handleAPI
\* The answer handleAPI gives before it reaches ExecuteLocked, NoResp when
\* the request passes: an unparsable body gets StatusBadRequest and a text,
\* a wrong method and a transaction that does not unmarshal get an error
\* envelope.
RejectionAll400(r) ==
    IF r.kind = "unparsable" \/ r.method # "suave_offchainCall" \/ r.params # "tx"
    THEN [kind |-> "http400"]
    ELSE NoResp

RejectionNoMethodCheck(r) ==
    IF r.kind = "unparsable"
    THEN [kind |-> "http400"]
    ELSE IF r.params # "tx"
    THEN NewJsonRpcErrorResponse(r, InvalidRequest,
            << "could not unmarshal transaction", "json" >>)
    ELSE NoResp

Rejection(r) ==
    IF r.kind = "unparsable"
    THEN [kind |-> "http400"]
    ELSE IF r.method # "suave_offchainCall"
    THEN NewJsonRpcErrorResponse(r, InvalidRequest,
            << "invalid method", "expected suave_offchainCall" >>)
    ELSE IF r.params # "tx"
    THEN NewJsonRpcErrorResponse(r, InvalidRequest,
            << "could not unmarshal transaction", "json" >>)
    ELSE NoResp

\* status line of a response: WriteHeader is called for the unparsable body
\* only, every other response goes out with the default 200
HttpStatus(r) == IF r.kind = "http400" THEN 400 ELSE 200

\* handleAPI up to the call of ExecuteLocked: parse the envelope, check the
\* method, unmarshal the transaction.
handleAPI(p) ==
    /\ ~terminated
    /\ UNCHANGED readyVars
    /\ pc[p] = "start"
    /\ \E r \in Requests :
        /\ req' = [req EXCEPT ![p] = IF r.kind = "unparsable" THEN @ ELSE r]
        /\ IF Rejection(r) # NoResp
           THEN /\ resp' = [resp EXCEPT ![p] = Rejection(r)]
                /\ pc' = [pc EXCEPT ![p] = "done"]
           ELSE /\ resp' = resp
                /\ pc' = [pc EXCEPT ![p] = "select"]
    /\ UNCHANGED << ctxDone, cmdLock, stdin, outPipe, errPipe, outData, outErr,
                    txErr, lockErr, outCh, errCh, logs, panicVal, terminated,
                    nWritten, nReadOut, nReadErr >>

\* ---------------------------------------------------------- ExecuteLocked
\* the struct{}{} value kept in the channel while the slot is taken
Token == "struct{}"

\* the send of "case r.cmdLock <- struct{}{}" can proceed
LockSendReadyNoCap == TRUE
LockSendReady == Len(cmdLock) < LockCap

\* select, case r.cmdLock <- struct{}{}: the slot is taken, cb() starts
ExecuteLockedAcquire(p) ==
    /\ ~terminated
    /\ UNCHANGED readyVars
    /\ pc[p] = "select"
    /\ LockSendReady
    /\ cmdLock' = Append(cmdLock, Token)
    /\ pc' = [pc EXCEPT ![p] = "tx"]
    /\ UNCHANGED << req, ctxDone, stdin, outPipe, errPipe, outData, outErr,
                    txErr, lockErr, outCh, errCh, resp, logs, panicVal,
                    terminated, nWritten, nReadOut, nReadErr >>

\* select, case <-ctx.Done(): ExecuteLocked returns ctx.Err(); handleAPI
\* drops the returned value and goes on to receive from errCh
ExecuteLockedTimeoutTakesSlot(p) ==
    /\ ~terminated
    /\ UNCHANGED readyVars
    /\ pc[p] = "select"
    /\ ctxDone[p]
    /\ lockErr' = [lockErr EXCEPT ![p] = "ctx"]
    /\ cmdLock' = Append(cmdLock, Token)
    /\ pc' = [pc EXCEPT ![p] = "recv1"]
    /\ UNCHANGED << req, ctxDone, stdin, outPipe, errPipe, outData,
                    outErr, txErr, outCh, errCh, resp, logs, panicVal,
                    terminated, nWritten, nReadOut, nReadErr >>

ExecuteLockedTimeoutInCallback(p) ==
    /\ ~terminated
    /\ UNCHANGED readyVars
    /\ pc[p] \in {"select", "tx", "readOut", "readErr", "cbret"}
    /\ ctxDone[p]
    /\ lockErr' = [lockErr EXCEPT ![p] = "ctx"]
    /\ pc' = [pc EXCEPT ![p] = "recv1"]
    /\ UNCHANGED << req, ctxDone, cmdLock, stdin, outPipe, errPipe, outData,
                    outErr, txErr, outCh, errCh, resp, logs, panicVal,
                    terminated, nWritten, nReadOut, nReadErr >>

ExecuteLockedTimeoutNoDeadline(p) ==
    /\ ~terminated
    /\ UNCHANGED readyVars
    /\ pc[p] = "select"
    /\ lockErr' = [lockErr EXCEPT ![p] = "ctx"]
    /\ pc' = [pc EXCEPT ![p] = "recv1"]
    /\ UNCHANGED << req, ctxDone, cmdLock, stdin, outPipe, errPipe, outData,
                    outErr, txErr, outCh, errCh, resp, logs, panicVal,
                    terminated, nWritten, nReadOut, nReadErr >>

ExecuteLockedTimeout(p) ==
    /\ ~terminated
    /\ UNCHANGED readyVars
    /\ pc[p] = "select"
    /\ ctxDone[p]
    /\ lockErr' = [lockErr EXCEPT ![p] = "ctx"]
    /\ pc' = [pc EXCEPT ![p] = "recv1"]
    /\ UNCHANGED << req, ctxDone, cmdLock, stdin, outPipe, errPipe, outData,
                    outErr, txErr, outCh, errCh, resp, logs, panicVal,
                    terminated, nWritten, nReadOut, nReadErr >>

\* cb() panicked: the unwinding skips "<-r.cmdLock", the slot stays taken
LockAfterPanicDeferred == Tail(cmdLock)
LockAfterPanic == cmdLock

\* A panic raised inside ExecuteTx.  It unwinds through the callback,
\* ExecuteLocked and handleAPI; whether it ends the process or only this
\* goroutine depends on a recover in the caller of handleAPI.
Panic(p, val) ==
    /\ pc' = [pc EXCEPT ![p] = "panicked"]
    /\ panicVal' = [panicVal EXCEPT ![p] = val]
    /\ cmdLock' = LockAfterPanic
    /\ terminated' \in BOOLEAN

\* ------------------------------------------------------------- ExecuteTx
\* StdinPipe/StdoutPipe/StderrPipe, MarshalBinary and inPipe.Write: the
\* errors ExecuteTx returns as an ordinary error value.  The three pipe
\* getters are called on the started command anew in every ExecuteTx.
TxErrors == {"pipe", "marshal", "write"}

\* ExecuteTx up to the first read loop: obtain the three pipes, marshal the
\* transaction, append the delimiter and write the frame.  Each of these
\* can fail, and ExecuteTx then returns the error; a failed Write is taken
\* to have put nothing on the pipe.
ExecuteTxWrite(p) ==
    /\ ~terminated
    /\ UNCHANGED readyVars
    /\ pc[p] = "tx"
    /\ LET txBytes == req[p].tx \o << NL >> IN
        \/ /\ \E e \in TxErrors : txErr' = [txErr EXCEPT ![p] = e]
           /\ pc' = [pc EXCEPT ![p] = "cbret"]
           /\ UNCHANGED << stdin, nWritten >>
        \/ /\ stdin' = stdin \o txBytes
           /\ nWritten' = nWritten + 1
           /\ pc' = [pc EXCEPT ![p] = "readOut"]
           /\ UNCHANGED txErr
    /\ UNCHANGED << req, ctxDone, cmdLock, outPipe, errPipe, outData, outErr,
                    lockErr, outCh, errCh, resp, logs, panicVal, terminated,
                    nReadOut, nReadErr >>

\* "if buf[nRead-1] == '\n' { break }" for nRead > 0 (buf is 1-based here)
FrameEndFirstChunk(buf, nRead) == TRUE
FrameEndAnyDelimiter(buf, nRead) == HasNL(buf)
FrameEnd(buf, nRead) == buf[nRead] = NL

\* the byte counts a Read with no error may return: at most what the pipe
\* holds and the buffer takes; 0 is a read that delivered nothing
ReadCounts(pipe) == 0 .. Min(Len(pipe), BufSize)

\* first loop of ExecuteTx, one iteration: outPipe.Read, the error check, the
\* zero-length check, the append and the delimiter test
ExecuteTxReadOut(p) ==
    /\ ~terminated
    /\ UNCHANGED readyVars
    /\ pc[p] = "readOut"
    /\ \/ \* err != nil: log and panic(err)
          /\ Panic(p, "stdout read error")
          /\ logs' = [logs EXCEPT ![p] = @ \cup {"revm service stdout corrupted"}]
          /\ UNCHANGED << outPipe, outData, nReadOut >>
       \/ \E nRead \in ReadCounts(outPipe) :
            LET buf == Take(outPipe, nRead) IN
            IF nRead = 0
            THEN \* time.Sleep, append of nothing, then buf[-1]: the index
                 \* is out of range and the runtime panics
                 /\ Panic(p, "index out of range")
                 /\ UNCHANGED << logs, outPipe, outData, nReadOut >>
            ELSE /\ outData' = [outData EXCEPT ![p] = @ \o buf]
                 /\ outPipe' = Drop(outPipe, nRead)
                 /\ IF FrameEnd(buf, nRead)
                    THEN /\ pc' = [pc EXCEPT ![p] = "readErr"]
                         /\ nReadOut' = nReadOut + 1
                    ELSE UNCHANGED << pc, nReadOut >>
                 /\ UNCHANGED << logs, panicVal, cmdLock, terminated >>
    /\ UNCHANGED << req, ctxDone, stdin, errPipe, outErr, txErr, lockErr,
                    outCh, errCh, resp, nWritten, nReadErr >>

\* second loop of ExecuteTx, one iteration, on errPipe; leaving the loop
\* returns outData, outErr, nil
ExecuteTxReadErr(p) ==
    /\ ~terminated
    /\ UNCHANGED readyVars
    /\ pc[p] = "readErr"
    /\ \/ /\ Panic(p, "stderr read error")
          /\ logs' = [logs EXCEPT ![p] = @ \cup {"revm service stdout corrupted"}]
          /\ UNCHANGED << errPipe, outErr, nReadErr, txErr >>
       \/ \E nRead \in ReadCounts(errPipe) :
            LET buf == Take(errPipe, nRead) IN
            IF nRead = 0
            THEN /\ Panic(p, "index out of range")
                 /\ UNCHANGED << logs, errPipe, outErr, nReadErr, txErr >>
            ELSE /\ outErr' = [outErr EXCEPT ![p] = @ \o buf]
                 /\ errPipe' = Drop(errPipe, nRead)
                 /\ IF FrameEnd(buf, nRead)
                    THEN /\ pc' = [pc EXCEPT ![p] = "cbret"]
                         /\ txErr' = [txErr EXCEPT ![p] = "nil"]
                         /\ nReadErr' = nReadErr + 1
                    ELSE UNCHANGED << pc, txErr, nReadErr >>
                 /\ UNCHANGED << logs, panicVal, cmdLock, terminated >>
    /\ UNCHANGED << req, ctxDone, stdin, outPipe, outData, lockErr,
                    outCh, errCh, resp, nWritten, nReadOut >>

\* ExecuteTx returned: the callback of handleAPI passes the result to the
\* channels, ExecuteLocked takes the token back and returns nil
CallbackReturn(p) ==
    /\ ~terminated
    /\ UNCHANGED readyVars
    /\ pc[p] = "cbret"
    /\ IF txErr[p] # "nil"
       THEN /\ Len(errCh[p]) < ErrChCap
            /\ errCh' = [errCh EXCEPT ![p] = Append(@, txErr[p])]
            /\ outCh' = outCh
       ELSE /\ Len(outCh[p]) + 2 <= OutChCap
            /\ Len(errCh[p]) < ErrChCap
            /\ outCh' = [outCh EXCEPT ![p] = @ \o << outData[p], outErr[p] >>]
            /\ errCh' = [errCh EXCEPT ![p] = Append(@, "nil")]
    /\ cmdLock # << >>
    /\ cmdLock' = Tail(cmdLock)
    /\ lockErr' = [lockErr EXCEPT ![p] = "nil"]
    /\ pc' = [pc EXCEPT ![p] = "recv1"]
    /\ UNCHANGED << req, ctxDone, stdin, outPipe, errPipe, outData, outErr,
                    txErr, resp, logs, panicVal, terminated,
                    nWritten, nReadOut, nReadErr >>

\* handleAPI after ExecuteLocked: "<-errCh", then the error envelope, or the
\* success envelope with "<-outCh" followed by the second "<-errCh"
handleAPIReceive(p) ==
    /\ ~terminated
    /\ UNCHANGED readyVars
    /\ pc[p] \in {"recv1", "recv2"}
    /\ errCh[p] # << >>
    /\ errCh' = [errCh EXCEPT ![p] = Tail(@)]
    /\ IF pc[p] = "recv1"
       THEN IF Head(errCh[p]) # "nil"
            THEN /\ logs' = [logs EXCEPT ![p] = @ \cup {"could not execute offchain call"}]
                 /\ resp' = [resp EXCEPT ![p] = NewJsonRpcErrorResponse(req[p],
                                InvalidRequest, << "could not execute", Head(errCh[p]) >>)]
                 /\ pc' = [pc EXCEPT ![p] = "done"]
                 /\ outCh' = outCh
            ELSE /\ outCh[p] # << >>
                 /\ resp' = [resp EXCEPT ![p] =
                                NewJsonRpcSuccessResponse(req[p], Head(outCh[p]))]
                 /\ outCh' = [outCh EXCEPT ![p] = Tail(@)]
                 /\ pc' = [pc EXCEPT ![p] = "recv2"]
                 /\ logs' = logs
       ELSE /\ logs' = [logs EXCEPT ![p] =
                    IF Head(errCh[p]) # "nil"
                    THEN @ \cup {"encountered execution error"} ELSE @]
            /\ pc' = [pc EXCEPT ![p] = "done"]
            /\ UNCHANGED << resp, outCh >>
    /\ UNCHANGED << req, ctxDone, cmdLock, stdin, outPipe, errPipe, outData,
                    outErr, txErr, lockErr, panicVal, terminated,
                    nWritten, nReadOut, nReadErr >>

\* ------------------------------------------------------- specification
Next ==
    \/ \E p \in Procs : handleAPI(p)
    \/ \E p \in Procs : ExecuteLockedAcquire(p)
    \/ \E p \in Procs : ExecuteLockedTimeout(p)
    \/ \E p \in Procs : ExecuteTxWrite(p)
    \/ \E p \in Procs : ExecuteTxReadOut(p)
    \/ \E p \in Procs : ExecuteTxReadErr(p)
    \/ \E p \in Procs : CallbackReturn(p)
    \/ \E p \in Procs : handleAPIReceive(p)
    \/ \E p \in Procs : Cancel(p)
    \/ Engine

Spec == Init /\ [][Next]_vars

\* Goroutines that can run are scheduled, and the engine answers: weak
\* fairness of every step of a request and of the engine.  Arrival of
\* cancellation is left to the environment.
RequestStep(p) ==
    \/ handleAPI(p)
    \/ ExecuteLockedAcquire(p)
    \/ ExecuteLockedTimeout(p)
    \/ ExecuteTxWrite(p)
    \/ ExecuteTxReadOut(p)
    \/ ExecuteTxReadErr(p)
    \/ CallbackReturn(p)
    \/ handleAPIReceive(p)

FairSpec ==
    /\ Spec
    /\ \A p \in Procs : WF_vars(RequestStep(p))
    /\ WF_vars(Engine)

\* ------------------------------------------------------------ properties
\* positions inside the callback passed to ExecuteLocked
CallbackPcs == {"tx", "readOut", "readErr", "cbret"}
InCallback(p) == pc[p] \in CallbackPcs
Panicked(p) == pc[p] = "panicked"

\* C1: mutual exclusion.  The slot holds at most one token, every caller
\* that is inside the callback (or left it by a panic in the middle of its
\* write/read sequence) is covered by that token, so at most one caller is
\* ever between its write and the end of its reads.
C1_MutualExclusion ==
    /\ Len(cmdLock) <= 1
    /\ Cardinality({p \in Procs : InCallback(p) \/ Panicked(p)}) <= Len(cmdLock)
    /\ \A p, q \in Procs :
        (p # q /\ pc[p] \in {"readOut", "readErr"}) => pc[q] \notin CallbackPcs

\* one caller is in the middle of reading its response while another one
\* waits in the select of ExecuteLocked
C1_Witness ==
    \E p, q \in Procs :
        /\ p # q
        /\ pc[p] = "readOut" /\ outData[p] # << >>
        /\ pc[q] = "select"
        /\ Len(cmdLock) = 1

\* C2: release discipline.  Every acquisition of the slot is followed by one
\* release on every exit path of the callback, a panic raised inside
\* ExecuteTx included: while the process runs, the slot is taken exactly
\* while a caller is inside the callback, and it is free again after a call
\* that ended in a stream fault.
C2_ReleaseDiscipline ==
    ~terminated =>
        Len(cmdLock) = Cardinality({p \in Procs : InCallback(p)})

\* C3: lock-step protocol.  With an engine that answers each input frame by
\* one frame on each output stream, the frames written run at most one ahead
\* of the frames read from stdout and from stderr, and whenever a caller is
\* about to write a frame, every earlier frame has been answered and both
\* answers were read in full: nothing is left on the pipes.
C3_LockStep ==
    /\ nWritten - nReadOut \in {0, 1}
    /\ nWritten - nReadErr \in {0, 1}
    /\ nReadErr <= nReadOut
    /\ \A p \in Procs :
        pc[p] = "tx" =>
            /\ nReadOut = nWritten
            /\ nReadErr = nWritten
            /\ outPipe = << >>
            /\ errPipe = << >>
            /\ ~HasNL(stdin)

\* a second frame has been written after the first one was answered and read
C3_Witness == nWritten = 2 /\ nReadOut = 1 /\ nReadErr = 1

\* C4: every fault of the protocol turn is fatal.  In particular a write
\* error on the input stream never comes back as an ordinary error value
\* that is turned into an error envelope while the service keeps running.
C4_FaultsAreFatal ==
    \A p \in Procs :
        ~ /\ resp[p].kind = "error"
          /\ resp[p].message = << "could not execute", "write" >>
          /\ ~terminated

\* C5: a failed read is fatal once and for all.  At most one panic is ever
\* raised, and as soon as one caller has panicked no caller is inside the
\* callback any more: since a panicked caller stays panicked, no later
\* request writes to or reads from the pipes.
C5_FatalOnce ==
    LET P == {p \in Procs : Panicked(p)} IN
    /\ Cardinality(P) <= 1
    /\ P # {} => \A q \in Procs : ~InCallback(q)

\* the stdout stream failed in the middle of a frame, the process survived
\* the panic, and another request is waiting for the slot
C5_Witness ==
    \E p, q \in Procs :
        /\ p # q
        /\ panicVal[p] = "stdout read error" /\ outData[p] # << >>
        /\ ~terminated
        /\ pc[q] = "select"

\* C6: an admission timeout is free of side effects.  The step in which
\* ExecuteLocked returns the context's error changes neither the slot nor
\* the pipes; a caller that got that error never ran the callback (nothing
\* read, nothing sent on its channels, no ExecuteTx result), and the tokens
\* in the slot are exactly those of the callers that did acquire it.
C6_TimedOutNeverRan ==
    /\ \A p \in Procs :
        lockErr[p] = "ctx" =>
            /\ pc[p] = "recv1"
            /\ txErr[p] = "none" /\ panicVal[p] = "none"
            /\ outData[p] = << >> /\ outErr[p] = << >>
            /\ outCh[p] = << >> /\ errCh[p] = << >>
    /\ Len(cmdLock) = Cardinality({q \in Procs : InCallback(q) \/ Panicked(q)})

C6_TimeoutStep ==
    \A p \in Procs :
        (lockErr[p] = "none" /\ lockErr'[p] = "ctx") =>
            UNCHANGED << cmdLock, stdin, outPipe, errPipe, nWritten, nReadOut,
                         nReadErr, outData, outErr, outCh, errCh >>

C6_TimeoutSideEffectFree == [] C6_TimedOutNeverRan /\ [][C6_TimeoutStep]_vars

\* one caller got the timeout while the slot was taken, and the holder has
\* released the slot since
C6_Witness ==
    \E p, q \in Procs :
        /\ p # q
        /\ lockErr[p] = "ctx"
        /\ lockErr[q] = "nil"
        /\ cmdLock = << >>

\* C7: a request whose deadline elapsed while it waited for the slot is
\* answered with an error envelope (code -32600, id echoed) and its handler
\* returns, as long as the process runs.
C7_TimeoutAnswered ==
    \A p \in Procs :
        (lockErr[p] = "ctx") ~>
            \/ terminated
            \/ /\ pc[p] = "done"
               /\ resp[p].kind = "error"
               /\ resp[p].code = InvalidRequest
               /\ resp[p].id = req[p].id

\* C8: frame round trip.  What ExecuteTx returns as the primary output of
\* an echoing engine is the payload it wrote, the delimiter stripped.
C8_RoundTrip ==
    \A p \in Procs : txErr[p] = "nil" => outData[p] = req[p].tx

\* C9: a read of zero bytes with no error is transient: it raises no fault.
C9_ZeroReadTransient ==
    \A p \in Procs : panicVal[p] # "index out of range"

\* C10: success path.  The success envelope carries the primary output and
\* the id and jsonrpc of the request, never the diagnostic output, and the
\* handler goes on to log the diagnostic output.
C10_SuccessEnvelope ==
    \A p \in Procs :
        resp[p].kind = "success" =>
            /\ resp[p].result = outData[p]
            /\ resp[p].result # outErr[p]
            /\ resp[p].id = req[p].id
            /\ resp[p].jsonrpc = req[p].jsonrpc

C10_SuccessPath ==
    /\ [] C10_SuccessEnvelope
    /\ \A p \in Procs :
        (resp[p].kind = "success") ~>
            (terminated \/ "encountered execution error" \in logs[p])

\* requests answered by handleAPI before it reaches ExecuteLocked
Rejected(p) == pc[p] = "done" /\ lockErr[p] = "none"

\* C11 as claimed: every client-facing fault (malformed envelope, unsupported
\* method, malformed payload) is answered with HTTP 200 and a JSON-RPC error
\* envelope.
C11_ClientFaults200 ==
    \A p \in Procs :
        Rejected(p) => (resp[p].kind = "error" /\ HttpStatus(resp[p]) = 200)

\* C11 as amended: an unsupported method and a malformed payload are
\* answered with HTTP 200 and an error envelope (code -32600, id echoed); a
\* malformed envelope is answered with HTTP 400 and no envelope.  None of
\* them ends the process: only a panic inside ExecuteTx does.
C11_ClientFaultResponses ==
    /\ \A p \in Procs :
        Rejected(p) =>
            IF req[p] = NoReq
            THEN resp[p].kind = "http400" /\ HttpStatus(resp[p]) = 400
            ELSE /\ resp[p].kind = "error"
                 /\ HttpStatus(resp[p]) = 200
                 /\ resp[p].code = InvalidRequest
                 /\ resp[p].id = req[p].id
                 /\ req[p].method # "suave_offchainCall" \/ req[p].params # "tx"
    /\ terminated => \E q \in Procs : Panicked(q)

\* a malformed payload was answered with an envelope and another request is
\* being executed
C11_Witness ==
    \E p, q \in Procs :
        /\ p # q
        /\ Rejected(p) /\ resp[p].kind = "error" /\ req[p].params = "garbage"
        /\ pc[q] = "readOut"

\* C12: a request with another method than suave_offchainCall is answered
\* with an error envelope of code -32600 carrying its id, and it never gets
\* as far as ExecuteLocked: no slot, no result of ExecuteLocked or ExecuteTx,
\* nothing read, nothing on its channels.
C12_BadMethodRejected ==
    \A p \in Procs :
        (req[p].kind = "parsed" /\ req[p].method # "suave_offchainCall") =>
            /\ pc[p] = "done"
            /\ resp[p].kind = "error"
            /\ resp[p].code = InvalidRequest
            /\ resp[p].id = req[p].id
            /\ resp[p].jsonrpc = req[p].jsonrpc
            /\ lockErr[p] = "none" /\ txErr[p] = "none" /\ panicVal[p] = "none"
            /\ outData[p] = << >> /\ outErr[p] = << >>
            /\ outCh[p] = << >> /\ errCh[p] = << >>
            /\ ~ctxDone[p]

\* a request with method "foo" was answered while the slot is taken by
\* another request
C12_Witness ==
    \E p, q \in Procs :
        /\ p # q
        /\ req[p].kind = "parsed" /\ req[p].method = "foo" /\ pc[p] = "done"
        /\ InCallback(q)

\* C15: the pipes of the engine are obtained once; no execution obtains
\* them again, so no execution stops at the pipe getters before its write.
C15_PipesReused ==
    \A p \in Procs : txErr[p] # "pipe"

Last(s) == s[Len(s)]

\* C16: order inside one turn.  Nothing is read before the frame is
\* written, the stderr loop is entered and stderr bytes are taken only after
\* the stdout loop has received the delimiter, and while the stdout loop
\* runs the frame is written and unanswered and nothing was read from stderr.
C16_TurnOrder ==
    \A p \in Procs :
        /\ pc[p] \in {"start", "select", "tx"} =>
                (outData[p] = << >> /\ outErr[p] = << >>)
        /\ pc[p] = "readOut" =>
                (outErr[p] = << >> /\ nWritten = nReadOut + 1 /\ nReadErr = nReadOut)
        /\ (pc[p] = "readErr" \/ outErr[p] # << >>) =>
                (outData[p] # << >> /\ Last(outData[p]) = NL)
        /\ pc[p] = "readErr" => (nReadOut = nWritten /\ nReadErr + 1 = nWritten)

\* the stderr frame is partly read, the stdout frame is complete
C16_Witness ==
    \E p \in Procs :
        pc[p] = "readErr" /\ outErr[p] # << >> /\ Last(outData[p]) = NL

\* C17: cancellation after acquisition has no effect.  The step in which
\* the context of a caller inside the callback becomes done changes nothing
\* else; a caller inside the callback never gets the timeout result and
\* leaves the callback only by returning from it or by a panic; the slot is
\* given back only by the return of the callback; and every step of the
\* turn stays possible with the context done.
C17_CancelStep ==
    \A p \in Procs :
        (InCallback(p) /\ ~ctxDone[p] /\ ctxDone'[p]) =>
            UNCHANGED << pc, cmdLock, stdin, outPipe, errPipe, outData, outErr,
                         txErr, lockErr, outCh, errCh, resp, panicVal,
                         terminated, nWritten, nReadOut, nReadErr >>

C17_NoAbort ==
    /\ \A p \in Procs :
        InCallback(p) =>
            /\ lockErr'[p] # "ctx"
            /\ pc'[p] \in CallbackPcs \cup {"panicked", "recv1"}
            /\ pc'[p] = "recv1" => (pc[p] = "cbret" /\ lockErr'[p] = "nil")
    /\ Len(cmdLock') < Len(cmdLock) =>
            \E q \in Procs : pc[q] = "cbret" /\ pc'[q] = "recv1"

C17_TurnGoesOn ==
    \A p \in Procs :
        (ctxDone[p] /\ ~terminated) =>
            /\ pc[p] = "tx" => ENABLED ExecuteTxWrite(p)
            /\ pc[p] = "readOut" => ENABLED ExecuteTxReadOut(p)
            /\ pc[p] = "readErr" => ENABLED ExecuteTxReadErr(p)
            /\ pc[p] = "cbret" => ENABLED CallbackReturn(p)

C17_CancelAfterAcquire ==
    [] C17_TurnGoesOn /\ [][C17_CancelStep /\ C17_NoAbort]_vars

\* a caller whose context is done completed its turn and gave the slot back
C17_Witness ==
    \E p \in Procs :
        ctxDone[p] /\ lockErr[p] = "nil" /\ txErr[p] = "nil" /\ cmdLock = << >>

\* C18: every handleAPI invocation returns.  Once ExecuteLocked has
\* returned, with nil or with the context's error, the handler gets past
\* its receives and returns, as long as the process runs.
C18_HandlerReturns ==
    \A p \in Procs :
        (lockErr[p] # "none") ~> (pc[p] = "done" \/ terminated)

\* C19 as claimed: a caller whose context is done at the select is never
\* given the slot.
C19_NoGrantWhenDone ==
    [][\A p \in Procs : (pc[p] = "select" /\ ctxDone[p]) => pc'[p] # "tx"]_vars

\* C19 as amended: the select gives the slot only when it is free and
\* returns the timeout result only to a caller whose context is done; a
\* caller whose context is done while the slot is taken can only get the
\* timeout; with the context done and the slot free both cases are open.
C19_SelectStep ==
    \A p \in Procs :
        pc[p] = "select" =>
            /\ pc'[p] \in {"select", "tx", "recv1"}
            /\ pc'[p] = "tx" => (cmdLock = << >> /\ lockErr'[p] = "none")
            /\ pc'[p] = "recv1" => (ctxDone[p] /\ lockErr'[p] = "ctx")

C19_SelectCases ==
    \A p \in Procs :
        (pc[p] = "select" /\ ctxDone[p] /\ ~terminated) =>
            /\ ENABLED ExecuteLockedTimeout(p)
            /\ ENABLED ExecuteLockedAcquire(p) <=> cmdLock = << >>

C19_SelectOutcomes == [] C19_SelectCases /\ [][C19_SelectStep]_vars

\* a caller with its context done stands at the select with the slot free
C19_Witness ==
    \E p \in Procs : pc[p] = "select" /\ ctxDone[p] /\ cmdLock = << >>

\* ------------------------------------------------- readiness controller
\* handleLivenessCheck: WriteHeader(StatusOK)
handleLivenessCheck(a) ==
    /\ ~terminated
    /\ apc[a] = "idle"
    /\ aop' = [aop EXCEPT ![a] = "live"]
    /\ astatus' = [astatus EXCEPT ![a] = 200]
    /\ apc' = [apc EXCEPT ![a] = "done"]
    /\ UNCHANGED << isReady, nDown, nUp, nDrainLog, nSleep, nUndrainLog >>
    /\ UNCHANGED apiVars

\* handleReadinessCheck: StatusServiceUnavailable unless isReady.Load()
handleReadinessCheckAlwaysOK(a) ==
    /\ ~terminated
    /\ apc[a] = "idle"
    /\ aop' = [aop EXCEPT ![a] = "ready"]
    /\ astatus' = [astatus EXCEPT ![a] = 200]
    /\ apc' = [apc EXCEPT ![a] = "done"]
    /\ UNCHANGED << isReady, nDown, nUp, nDrainLog, nSleep, nUndrainLog >>
    /\ UNCHANGED apiVars

handleReadinessCheck(a) ==
    /\ ~terminated
    /\ apc[a] = "idle"
    /\ aop' = [aop EXCEPT ![a] = "ready"]
    /\ astatus' = [astatus EXCEPT ![a] = IF ~isReady THEN 503 ELSE 200]
    /\ apc' = [apc EXCEPT ![a] = "done"]
    /\ UNCHANGED << isReady, nDown, nUp, nDrainLog, nSleep, nUndrainLog >>
    /\ UNCHANGED apiVars

\* handleDrain, "wasReady := s.isReady.Swap(false)": the handler returns
\* when the flag was false already, else it goes on to the log and the sleep
handleDrainAlwaysLogs(a) ==
    /\ ~terminated
    /\ apc[a] = "idle"
    /\ aop' = [aop EXCEPT ![a] = "drain"]
    /\ isReady' = FALSE
    /\ nDown' = IF isReady THEN nDown + 1 ELSE nDown
    /\ apc' = [apc EXCEPT ![a] = "drainLog"]
    /\ UNCHANGED << astatus, nUp, nDrainLog, nSleep, nUndrainLog >>
    /\ UNCHANGED apiVars

handleDrain(a) ==
    /\ ~terminated
    /\ apc[a] = "idle"
    /\ aop' = [aop EXCEPT ![a] = "drain"]
    /\ isReady' = FALSE
    /\ nDown' = IF isReady THEN nDown + 1 ELSE nDown
    /\ LET wasReady == isReady IN
        IF ~wasReady
        THEN /\ apc' = [apc EXCEPT ![a] = "done"]
             /\ astatus' = [astatus EXCEPT ![a] = 200]
        ELSE /\ apc' = [apc EXCEPT ![a] = "drainLog"]
             /\ astatus' = astatus
    /\ UNCHANGED << nUp, nDrainLog, nSleep, nUndrainLog >>
    /\ UNCHANGED apiVars

\* handleDrain: s.log.Info("Server marked as not ready"), then the sleep of
\* DrainDuration begins
handleDrainLog(a) ==
    /\ ~terminated
    /\ apc[a] = "drainLog"
    /\ nDrainLog' = nDrainLog + 1
    /\ nSleep' = nSleep + 1
    /\ apc' = [apc EXCEPT ![a] = "drainSleep"]
    /\ UNCHANGED << isReady, aop, astatus, nDown, nUp, nUndrainLog >>
    /\ UNCHANGED apiVars

\* handleDrain: the sleep is over, the handler returns
handleDrainWake(a) ==
    /\ ~terminated
    /\ apc[a] = "drainSleep"
    /\ apc' = [apc EXCEPT ![a] = "done"]
    /\ astatus' = [astatus EXCEPT ![a] = 200]
    /\ UNCHANGED << isReady, aop, nDown, nUp, nDrainLog, nSleep, nUndrainLog >>
    /\ UNCHANGED apiVars

\* handleUndrain, "wasReady := s.isReady.Swap(true)": the handler returns
\* when the flag was true already, else it goes on to the log
handleUndrain(a) ==
    /\ ~terminated
    /\ apc[a] = "idle"
    /\ aop' = [aop EXCEPT ![a] = "undrain"]
    /\ isReady' = TRUE
    /\ nUp' = IF ~isReady THEN nUp + 1 ELSE nUp
    /\ LET wasReady == isReady IN
        IF wasReady
        THEN /\ apc' = [apc EXCEPT ![a] = "done"]
             /\ astatus' = [astatus EXCEPT ![a] = 200]
        ELSE /\ apc' = [apc EXCEPT ![a] = "undrainLog"]
             /\ astatus' = astatus
    /\ UNCHANGED << nDown, nDrainLog, nSleep, nUndrainLog >>
    /\ UNCHANGED apiVars

\* handleUndrain: s.log.Info("Server marked as ready"), the handler returns
handleUndrainLog(a) ==
    /\ ~terminated
    /\ apc[a] = "undrainLog"
    /\ nUndrainLog' = nUndrainLog + 1
    /\ apc' = [apc EXCEPT ![a] = "done"]
    /\ astatus' = [astatus EXCEPT ![a] = 200]
    /\ UNCHANGED << isReady, aop, nDown, nUp, nDrainLog, nSleep >>
    /\ UNCHANGED apiVars

\* The readiness handlers share no state with handleAPI: they are checked on
\* their own, with any interleaving of the admin requests.
ReadyNext ==
    \/ \E a \in Admins : handleLivenessCheck(a)
    \/ \E a \in Admins : handleReadinessCheck(a)
    \/ \E a \in Admins : handleDrain(a)
    \/ \E a \in Admins : handleDrainLog(a)
    \/ \E a \in Admins : handleDrainWake(a)
    \/ \E a \in Admins : handleUndrain(a)
    \/ \E a \in Admins : handleUndrainLog(a)

ReadySpec == Init /\ [][ReadyNext]_vars

\* number of admin requests at one of the positions
AtPc(positions) == Cardinality({a \in Admins : apc[a] \in positions})

\* C13: readiness transitions are idempotent.  The "not ready" records and
\* the sleeps are exactly those of the Drain calls that turned the flag from
\* true to false (made or still to be made by the calls that stand before
\* their log), the "ready" records exactly those of the Undrain calls that
\* turned it from false to true; every other call does nothing.  The flag
\* alternates, so of several Drains on a ready server one logs and sleeps.
C13_Idempotent ==
    /\ nDrainLog + AtPc({"drainLog"}) = nDown
    /\ nSleep + AtPc({"drainLog"}) = nDown
    /\ nUndrainLog + AtPc({"undrainLog"}) = nUp
    /\ nDown - nUp \in {0, 1}
    /\ isReady <=> nDown = nUp

\* two Drain calls have returned, one record and one sleep were made
C13_Witness ==
    /\ Cardinality({a \in Admins : aop[a] = "drain" /\ apc[a] = "done"}) = 2
    /\ nDrainLog = 1
    /\ nSleep = 1
    /\ ~isReady

\* C14: the readiness endpoint answers 200 when the flag is true at its
\* load and 503 when it is false; the liveness endpoint answers 200 always.
C14_ProbeStep ==
    \A a \in Admins :
        (astatus[a] = 0 /\ astatus'[a] # 0) =>
            /\ aop'[a] = "ready" => astatus'[a] = (IF isReady THEN 200 ELSE 503)
            /\ aop'[a] = "live" => astatus'[a] = 200

C14_Probes == [][C14_ProbeStep]_vars

\* while draining, one readiness probe got 503 and one liveness probe 200
C14_Witness ==
    \E a, b \in Admins :
        /\ aop[a] = "ready" /\ astatus[a] = 503
        /\ aop[b] = "live" /\ astatus[b] = 200
        /\ ~isReady

\* ------------------------------------------------------ the read loops
\* What an engine may have put on an output pipe: any bytes, delimiters
\* anywhere
StreamBytes == {NL, 65, 66}

RECURSIVE SeqsUpTo(_)
SeqsUpTo(n) ==
    IF n = 0 THEN { << >> }
    ELSE LET shorter == SeqsUpTo(n - 1) IN
         shorter \cup { Append(t, b) : t \in {u \in shorter : Len(u) = n - 1},
                                       b \in StreamBytes }

Streams == SeqsUpTo(MaxStream)

\* One caller holds the slot, has written its frame and stands before the
\* stdout loop; the pipes hold whatever the engine emitted.
FrameInit ==
    /\ \E r \in {v \in ValidRequests : v.tx = Payload(1)} :
        req = [p \in Procs |-> IF p = 1 THEN r ELSE NoReq]
    /\ pc = [p \in Procs |-> IF p = 1 THEN "readOut" ELSE "start"]
    /\ ctxDone = [p \in Procs |-> FALSE]
    /\ cmdLock = << Token >>
    /\ stdin = << >>
    /\ outPipe \in Streams
    /\ errPipe \in Streams
    /\ outData = [p \in Procs |-> << >>]
    /\ outErr = [p \in Procs |-> << >>]
    /\ txErr = [p \in Procs |-> "none"]
    /\ lockErr = [p \in Procs |-> "none"]
    /\ outCh = [p \in Procs |-> << >>]
    /\ errCh = [p \in Procs |-> << >>]
    /\ resp = [p \in Procs |-> NoResp]
    /\ logs = [p \in Procs |-> {}]
    /\ panicVal = [p \in Procs |-> "none"]
    /\ terminated = FALSE
    /\ nWritten = 1
    /\ nReadOut = 0
    /\ nReadErr = 0
    /\ isReady = TRUE
    /\ apc = [a \in Admins |-> "idle"]
    /\ aop = [a \in Admins |-> "none"]
    /\ astatus = [a \in Admins |-> 0]
    /\ nDown = 0
    /\ nUp = 0
    /\ nDrainLog = 0
    /\ nSleep = 0
    /\ nUndrainLog = 0

FrameNext ==
    \/ \E p \in Procs : ExecuteTxReadOut(p)
    \/ \E p \in Procs : ExecuteTxReadErr(p)

FrameSpec == FrameInit /\ [][FrameNext]_vars

\* C20: frame boundary of the read loops.  Every iteration moves a prefix
\* of the pipe to the end of the accumulator (bytes in order, none lost,
\* none twice, none taken from the other pipe), and an iteration that read
\* a non-empty chunk leaves the loop exactly when the last byte of that
\* chunk is the delimiter: a delimiter inside a chunk does not end the
\* frame, and what follows the final chunk stays on the pipe.
C20_LoopStep ==
    \A p \in Procs :
        /\ pc[p] = "readOut" =>
            /\ outData'[p] \o outPipe' = outData[p] \o outPipe
            /\ errPipe' = errPipe /\ outErr'[p] = outErr[p]
            /\ outData'[p] # outData[p] =>
                    (pc'[p] = "readErr" <=> Last(outData'[p]) = NL)
        /\ pc[p] = "readErr" =>
            /\ outErr'[p] \o errPipe' = outErr[p] \o errPipe
            /\ outPipe' = outPipe /\ outData'[p] = outData[p]
            /\ outErr'[p] # outErr[p] =>
                    (pc'[p] = "cbret" <=> Last(outErr'[p]) = NL)

C20_LoopState ==
    \A p \in Procs :
        /\ (pc[p] = "readOut" /\ outData[p] # << >>) => Last(outData[p]) # NL
        /\ (pc[p] = "readErr" /\ outErr[p] # << >>) => Last(outErr[p]) # NL
        /\ pc[p] \in {"readErr", "cbret"} => Last(outData[p]) = NL
        /\ pc[p] = "cbret" => Last(outErr[p]) = NL

C20_FrameBoundary == [] C20_LoopState /\ [][C20_LoopStep]_vars

\* the stdout loop goes on after a chunk with a delimiter inside it
C20_Witness ==
    \E p \in Procs : pc[p] = "readOut" /\ HasNL(outData[p])

====
